---- MODULE Spec2Model ----
(***************************************************************************)
(* Model of app.py: a Shiny application with three text outputs, env_info, *)
(* credentials_result and raw_http_result, re-rendered on first load and   *)
(* on every click of the "refresh" action button.                          *)
(*                                                                         *)
(* Text is a sequence of tokens.  Data that the code slices, measures or   *)
(* escapes (environment values and names, header values) is spelled one    *)
(* character per token; the fixed text of a format string is one token.    *)
(***************************************************************************)
EXTENDS Integers, Sequences, FiniteSets, TLC

VARIABLES
    environ,    \* os.environ: variable name -> None | Some(value)
    headers,    \* session.http_conn.headers: header name -> None | Some(value)
    refresh,    \* i.refresh(): the action button's click count
    pending,    \* outputs invalidated and not yet re-executed
    shown,      \* output name -> what the page displays for it
    execs,      \* output name -> number of executions so far
    sdk,        \* what the posit SDK did during the last credentials_result
    http,       \* what urlopen did during the last raw_http_result
    sdkCalls,   \* SDK calls made by the last credentials_result, in order
    netCalls    \* outbound requests made by the last raw_http_result

vars == <<environ, headers, refresh, pending, shown, execs, sdk, http,
          sdkCalls, netCalls>>

-----------------------------------------------------------------------------
(* Bounds *)

\* clicks of the refresh button in one behaviour
MaxClicks == 1

\* how many characters past a truncation threshold an input value may run
MaxOver == 1

-----------------------------------------------------------------------------
(* Python values *)

None == [some |-> FALSE]

Some(v) == [some |-> TRUE, val |-> v]

\* a call that returned v
Ok(v) == [ok |-> TRUE, val |-> v]

\* a call that raised an exception of class kind with str(e) = msg
Raise(kind, msg) == [ok |-> FALSE, kind |-> kind, msg |-> msg]

Min(a, b) == IF a < b THEN a ELSE b

\* a string of n copies of the character c
Fill(c, n) == [j \in 1..n |-> c]

\* s[:n]
Take(s, n) == SubSeq(s, 1, Min(n, Len(s)))

\* s.startswith(p)
StartsWith(s, p) == Len(p) <= Len(s) /\ SubSeq(s, 1, Len(p)) = p

\* p in s, for strings
Contains(s, p) ==
    \E j \in 0..(Len(s) - Len(p)) : SubSeq(s, j + 1, j + Len(p)) = p

\* the number of places where p occurs in s
Count(s, p) ==
    Cardinality({j \in 0..(Len(s) - Len(p)) : SubSeq(s, j + 1, j + Len(p)) = p})

\* sep.join(parts)
RECURSIVE JoinWith(_, _)
JoinWith(sep, parts) ==
    IF parts = <<>> THEN <<>>
    ELSE IF Len(parts) = 1 THEN parts[1]
    ELSE parts[1] \o sep \o JoinWith(sep, Tail(parts))

\* "\n".join(lines)
Join(lines) == JoinWith(<<"\n">>, lines)

\* str(n) for an int n >= 0
Digit(d) == <<"0", "1", "2", "3", "4", "5", "6", "7", "8", "9">>[d + 1]

RECURSIVE IntStr(_)
IntStr(n) == IF n < 10 THEN <<Digit(n)>> ELSE IntStr(n \div 10) \o <<Digit(n % 10)>>

\* f"{e_type.__name__}: {e}"
ExcText(e) == <<e.kind, ": ", e.msg>>

\* traceback.format_exc() while handling e
FormatExc(e) == <<"Traceback (most recent call last):", "\n", e.kind, ": ", e.msg, "\n">>

-----------------------------------------------------------------------------
(* json.dumps *)

\* the JSON escape of one character (ensure_ascii, the two characters that
\* a string literal cannot hold as they are)
JsonChar(c) ==
    IF c = "\"" THEN <<"\\", "\"">>
    ELSE IF c = "\\" THEN <<"\\", "\\">>
    ELSE <<c>>

RECURSIVE JsonEscape(_)
JsonEscape(s) == IF s = <<>> THEN <<>> ELSE JsonChar(Head(s)) \o JsonEscape(Tail(s))

JsonString(s) == <<"\"">> \o JsonEscape(s) \o <<"\"">>

\* one "key": value member at indent 2, value already encoded
JsonMember(k, enc) == <<" ", " ">> \o JsonString(k) \o <<":", " ">> \o enc

\* json.dumps(..., indent=2) of a dict whose encoded members are given
JsonObject(members) ==
    IF members = <<>> THEN <<"{", "}">>
    ELSE <<"{", "\n">> \o JoinWith(<<",", "\n">>, members) \o <<"\n", "}">>

\* json.dumps(d, indent=2) of a dict of strings whose keys, in order, are keys
JsonDumps(keys, d) ==
    JsonObject([j \in 1..Len(keys) |-> JsonMember(keys[j], JsonString(d[keys[j]]))])

\* A payload returned by the SDK: a dict, keys in order, whose values are
\* strings (isStr) or objects json cannot encode, with str(obj) = text; badKey
\* marks a dict with a key json refuses (a tuple).
Str(s) == [isStr |-> TRUE, text |-> s]

Obj(repr) == [isStr |-> FALSE, text |-> repr]

Payload(keys, d) == [badKey |-> FALSE, keys |-> keys, d |-> d]

BadKeyPayload == [badKey |-> TRUE, keys |-> <<>>, d |-> <<>>]

\* json.dumps(p, indent=2, default=str): str() stands in for a value that is
\* not serializable; a bad key raises, default or not
JsonDumpsDefault(p) ==
    IF p.badKey
    THEN Raise("TypeError", "keys must be str, int, float, bool or None, not tuple")
    ELSE Ok(JsonObject([j \in 1..Len(p.keys) |->
                           JsonMember(p.keys[j], JsonString(p.d[p.keys[j]].text))]))

-----------------------------------------------------------------------------
(* Program constants *)

\* v[:20] + "..." if len(v) > 20, in env_info
EnvTrunc == 20

\* v[:30] + "..." if len(v) > 30, in the header dump
HdrTrunc == 30

\* session_token[:20]
TokenPrefix == 20

\* urlopen(req, timeout=5)
Timeout == 5

Ellipsis == <<".", ".", ".">>

CONNECT_SERVER == <<"C", "O", "N", "N", "E", "C", "T", "_", "S", "E", "R", "V", "E", "R">>

POSIT_PRODUCT == <<"P", "O", "S", "I", "T", "_", "P", "R", "O", "D", "U", "C", "T">>

CONNECT_PREFIX == <<"C", "O", "N", "N", "E", "C", "T", "_">>

POSIT_PREFIX == <<"P", "O", "S", "I", "T", "_">>

TokenHeader == "Posit-Connect-User-Session-Token"

CredentialsPath == <<"/__api__/v1/oauth/integrations/credentials">>

Outputs == {"env_info", "credentials_result", "raw_http_result"}

-----------------------------------------------------------------------------
(* The environment of the process *)

CONNECT_API_KEY == <<"C", "O", "N", "N", "E", "C", "T", "_", "A", "P", "I", "_", "K", "E", "Y">>

HOME == <<"H", "O", "M", "E">>

\* os.environ.items() yields the variables that are set, in this order
EnvOrder == <<HOME, CONNECT_SERVER, POSIT_PRODUCT, CONNECT_API_KEY>>

EnvNames == {EnvOrder[j] : j \in 1..Len(EnvOrder)}

\* os.environ.get(name, default)
EnvGet(env, name, default) == IF env[name].some THEN env[name].val ELSE default

-----------------------------------------------------------------------------
(* env_info *)

\* the redaction left out
RedactEnvOff(v) == v

\* v[:20] + "..." if len(v) > 20 else v
RedactEnv(v) == IF Len(v) > EnvTrunc THEN Take(v, EnvTrunc) \o Ellipsis ELSE v

\* the keys of connect_vars, in os.environ order
ConnectKeys(env) ==
    SelectSeq(EnvOrder, LAMBDA k : /\ env[k].some
                                   /\ \/ StartsWith(k, CONNECT_PREFIX)
                                      \/ StartsWith(k, POSIT_PREFIX))

\* the dict connect_vars
ConnectVars(env) ==
    [k \in {ConnectKeys(env)[j] : j \in 1..Len(ConnectKeys(env))} |-> RedactEnv(env[k].val)]

env_info(env) ==
    LET connect_server == EnvGet(env, CONNECT_SERVER, <<"<not set>">>)
        posit_product == EnvGet(env, POSIT_PRODUCT, <<"<not set>">>)
        lines == << <<"CONNECT_SERVER = ">> \o connect_server,
                    <<"POSIT_PRODUCT  = ">> \o posit_product,
                    <<>>,
                    <<"All CONNECT_*/POSIT_* env vars:">>,
                    JsonDumps(ConnectKeys(env), ConnectVars(env)) >>
    IN  Join(lines)

-----------------------------------------------------------------------------
(* The request headers *)

\* header names as the server stores them (lower case), in arrival order
HeaderOrder == <<"host", "posit-connect-user-session-token">>

HeaderNames == {HeaderOrder[j] : j \in 1..Len(HeaderOrder)}

\* name.lower(), for the names used here
Lower(name) ==
    IF name = "Posit-Connect-User-Session-Token"
    THEN "posit-connect-user-session-token"
    ELSE name

\* headers.get(name): case-insensitive, None when the header is absent
HeadersGet(hdrs, name) == hdrs[Lower(name)]

\* headers.items(): the headers present, in order
HeaderItems(hdrs) == SelectSeq(HeaderOrder, LAMBDA k : hdrs[k].some)

-----------------------------------------------------------------------------
(* credentials_result *)

\* f"{b}" for a bool
PyBool(b) == IF b THEN "True" ELSE "False"

\* v[:30] + "..." if len(v) > 30 else v
RedactHeader(v) == IF Len(v) > HdrTrunc THEN Take(v, HdrTrunc) \o Ellipsis ELSE v

\* presence tested as session_token != "" instead of "is not None"
TokenLinesNotEmpty(session_token) ==
    << <<"User session token present: ", PyBool(session_token # Some(<<>>))>> >>
    \o (IF session_token.some /\ session_token.val # <<>>
        THEN << <<"User session token (first 20 chars): ">>
                \o Take(session_token.val, TokenPrefix) \o Ellipsis >>
        ELSE <<>>)

\* the lines about the session token
TokenLines(session_token) ==
    << <<"User session token present: ", PyBool(session_token.some)>> >>
    \o (IF session_token.some /\ session_token.val # <<>>
        THEN << <<"User session token (first 20 chars): ">>
                \o Take(session_token.val, TokenPrefix) \o Ellipsis >>
        ELSE <<>>)

\* the dump of all request headers
HeaderLines(hdrs) ==
    << <<>>, <<"All request headers:">> >>
    \o [j \in 1..Len(HeaderItems(hdrs)) |->
           <<"  ", HeaderItems(hdrs)[j], ": ">>
           \o RedactHeader(hdrs[HeaderItems(hdrs)[j]].val)]

\* the lines one credential exchange appends: r is what the SDK call op did
ExchangeLines(op, r) ==
    IF r.ok
    THEN LET dumped == JsonDumpsDefault(r.val)
         IN  IF dumped.ok
             THEN << <<>>, <<op, "() response:">>, dumped.val >>
             ELSE << <<>>, <<op, "() response:">>,
                     <<>>, <<op, "() error: ">> \o ExcText(dumped) >>
    ELSE << <<>>, <<op, "() error: ">> \o ExcText(r) >>

\* the constructor call
ClientCall == [op |-> "Client", args |-> <<>>]

\* the return after the constructor's error left out: both exchanges then
\* fail on the unbound name client
InitFailedNoReturn(head, e) ==
    LET unbound == Raise("UnboundLocalError",
                         "cannot access local variable 'client'")
    IN  [raised |-> FALSE,
         text |-> Join(head \o << <<"Client() init error: ">> \o ExcText(e), FormatExc(e) >>
                       \o ExchangeLines("get_credentials", unbound)
                       \o ExchangeLines("get_content_credentials", unbound)),
         calls |-> <<ClientCall>>]

\* connect.Client() raised e: the error, the trace, and an early return
InitFailed(head, e) ==
    [raised |-> FALSE,
     text |-> Join(head \o << <<"Client() init error: ">> \o ExcText(e), FormatExc(e) >>),
     calls |-> <<ClientCall>>]

\* a viewer exchange error ends the function
ExchangesStopOnError(session_token, out) ==
    IF out.viewer.ok
    THEN [lines |-> ExchangeLines("get_credentials", out.viewer)
                    \o ExchangeLines("get_content_credentials", out.content),
          calls |-> << [op |-> "get_credentials", args |-> <<session_token>>],
                       [op |-> "get_content_credentials", args |-> <<>>] >>]
    ELSE [lines |-> ExchangeLines("get_credentials", out.viewer),
          calls |-> << [op |-> "get_credentials", args |-> <<session_token>>] >>]

\* the two exchanges, viewer then service account, each in its own try
Exchanges(session_token, out) ==
    [lines |-> ExchangeLines("get_credentials", out.viewer)
               \o ExchangeLines("get_content_credentials", out.content),
     calls |-> << [op |-> "get_credentials", args |-> <<session_token>>],
                  [op |-> "get_content_credentials", args |-> <<>>] >>]

\* out: what the import, the constructor and the two exchanges do this time
credentials_result(hdrs, out) ==
    LET session_token == HeadersGet(hdrs, TokenHeader)
        head == TokenLines(session_token) \o HeaderLines(hdrs)
        both == Exchanges(session_token, out)
    IN  IF ~out.import.ok
        THEN [raised |-> FALSE,
              text |-> Join(<< <<"Unexpected error: ">> \o ExcText(out.import)
                               \o <<"\n", "\n">> \o FormatExc(out.import) >>),
              calls |-> <<>>]
        ELSE IF ~out.client.ok
        THEN InitFailed(head, out.client)
        ELSE [raised |-> FALSE,
              text |-> Join(head
                            \o << <<"\n", "Client initialized OK (url=", out.client.val, ")">> >>
                            \o both.lines),
              calls |-> <<ClientCall>> \o both.calls]

-----------------------------------------------------------------------------
(* raw_http_result *)

\* a body on the wire: its text when it is valid UTF-8
Body(text, utf8) == [text |-> text, utf8 |-> utf8]

\* body.decode("utf-8")
Decode(b) ==
    IF b.utf8 THEN Ok(b.text)
    ELSE Raise("UnicodeDecodeError", "'utf-8' codec can't decode byte 0xff")

\* f"{dict(resp.headers)}"
ReprDict(pairs) ==
    <<"{">>
    \o JoinWith(<<", ">>, [j \in 1..Len(pairs) |->
                             <<"'", pairs[j][1], "'", ": ", "'", pairs[j][2], "'">>])
    \o <<"}">>

\* the request handed to urlopen
Request(url) ==
    [method |-> "POST", url |-> url, data |-> <<>>,
     headers |-> << <<"Content-Type", "application/json">> >>, timeout |-> Timeout]

\* the request made before the variable is looked at: f"{None}/..."
SkippedAfterRequest ==
    [raised |-> FALSE,
     text |-> <<"CONNECT_SERVER not set - cannot make raw HTTP request">>,
     calls |-> <<Request(<<"None">> \o CredentialsPath)>>]

\* the early return when CONNECT_SERVER is unset or empty
Skipped ==
    [raised |-> FALSE,
     text |-> <<"CONNECT_SERVER not set - cannot make raw HTTP request">>,
     calls |-> <<>>]

\* out: what urlopen does this time
raw_http_result(env, out) ==
    LET connect_server == env[CONNECT_SERVER]
    IN  IF ~connect_server.some \/ connect_server.val = <<>>
        THEN Skipped
        ELSE
        LET url == connect_server.val \o CredentialsPath
            lines == << <<"POST ">> \o url, <<>> >>
            calls == <<Request(url)>>
            Returned(more) == [raised |-> FALSE, text |-> Join(lines \o more), calls |-> calls]
            Failed(e) == Returned(<< <<"Error: ">> \o ExcText(e) >>)
        IN  CASE out.kind = "response" ->
                 LET body == Decode(out.body)
                 IN  IF body.ok
                     THEN Returned(<< <<"Status: ">> \o IntStr(out.status),
                                      <<"Headers: ">> \o ReprDict(out.headers),
                                      <<"Body: ">> \o body.val >>)
                     ELSE Failed(body)
              [] out.kind = "HTTPError" ->
                 LET body == IF out.fp THEN Decode(out.body) ELSE Ok(<<"<no body>">>)
                 IN  IF body.ok
                     THEN Returned(<< <<"HTTP Error: ">> \o IntStr(out.code),
                                      <<"Body: ">> \o body.val >>)
                     ELSE [raised |-> TRUE, exc |-> body, calls |-> calls]
              [] OTHER -> Failed(out.exc)

-----------------------------------------------------------------------------
(* What the world outside the program can do *)

\* a server URL of n characters
Url(n) == <<"h", "t", "t", "p", ":", "/", "/">> \o Fill("s", n - 7)

\* an API key of n characters that starts with a double quote
Key(n) == <<"\"">> \o Fill("k", n - 1)

\* the environments the process may be started in
Environs ==
    {env \in [EnvNames -> {None} \cup {Some(<<>>)}
                          \cup {Some(<<"c", "o", "n", "n", "e", "c", "t">>)}
                          \cup {Some(Fill("h", EnvTrunc + 1))}
                          \cup {Some(Url(n)) : n \in EnvTrunc..(EnvTrunc + MaxOver)}
                          \cup {Some(Key(n)) : n \in (EnvTrunc + 1)..(EnvTrunc + MaxOver)}] :
        /\ env[HOME] = Some(Fill("h", EnvTrunc + 1))
        /\ env[CONNECT_SERVER] \in
              {None, Some(<<>>)} \cup {Some(Url(n)) : n \in EnvTrunc..(EnvTrunc + MaxOver)}
        /\ env[POSIT_PRODUCT] \in {None, Some(<<"c", "o", "n", "n", "e", "c", "t">>)}
        /\ env[CONNECT_API_KEY] \in
              {None} \cup {Some(Key(n)) : n \in (EnvTrunc + 1)..(EnvTrunc + MaxOver)}}

\* the session tokens a request may carry
Tokens ==
    {<<>>}
    \cup {Fill("t", n) : n \in (TokenPrefix + 1)..(TokenPrefix + MaxOver)}
    \cup {Fill("t", n) : n \in HdrTrunc..(HdrTrunc + MaxOver)}

\* the header sets a session may be opened with
HeaderSets ==
    {h \in [HeaderNames -> {None, Some(<<"a", "p", "p">>)} \cup {Some(t) : t \in Tokens}] :
        /\ h["host"] = Some(<<"a", "p", "p">>)
        /\ h["posit-connect-user-session-token"] \in {None} \cup {Some(t) : t \in Tokens}}

\* nothing was asked of the SDK or of the network yet
NoOutcome == [kind |-> "none"]

\* a step that was not reached
Unused == [reached |-> FALSE]

ViewerPayload == Payload(<< <<"access_token">> >>, [k \in {<<"access_token">>} |-> Str(<<"viewer-token">>)])

ContentPayload ==
    Payload(<< <<"access_token">>, <<"expires">> >>,
            [k \in {<<"access_token">>, <<"expires">>} |->
                IF k = <<"access_token">> THEN Str(<<"content-token">>)
                ELSE Obj(<<"2030-01-01 00:00:00">>)])

\* what client.oauth.get_credentials(session_token) may do
ViewerResults ==
    {Ok(ViewerPayload), Ok(BadKeyPayload), Raise("ClientError", "viewer exchange refused")}

\* what client.oauth.get_content_credentials() may do
ContentResults ==
    {Ok(ContentPayload), Ok(BadKeyPayload), Raise("ClientError", "content exchange refused")}

\* what the SDK may do during one credentials_result
SdkOutcomes ==
    {[kind |-> "sdk", import |-> Raise("ModuleNotFoundError", "No module named 'posit'"),
      client |-> Unused, viewer |-> Unused, content |-> Unused]}
    \cup {[kind |-> "sdk", import |-> Ok("connect"),
           client |-> Raise("ValueError", "Invalid value for 'api_key'"),
           viewer |-> Unused, content |-> Unused]}
    \cup {[kind |-> "sdk", import |-> Ok("connect"), client |-> Ok("https://connect.example"),
           viewer |-> v, content |-> c] : v \in ViewerResults, c \in ContentResults}

\* what urlopen may do during one raw_http_result
HttpOutcomes ==
    {[kind |-> "response", status |-> 200,
      headers |-> << <<"Content-Type", "application/json">> >>, body |-> b] :
        b \in {Body(<<"{\"access_token\":\"x\"}">>, TRUE), Body(<<>>, FALSE)}}
    \cup {[kind |-> "HTTPError", code |-> 403, fp |-> TRUE, body |-> b] :
            b \in {Body(<<"{\"error\":\"forbidden\"}">>, TRUE), Body(<<>>, FALSE)}}
    \cup {[kind |-> "HTTPError", code |-> 502, fp |-> FALSE, body |-> Body(<<>>, TRUE)]}
    \cup {[kind |-> "error", exc |-> Raise("URLError", "<urlopen error timed out>")]}

-----------------------------------------------------------------------------
(* The page: three outputs that depend on the refresh button *)

\* an output that was never rendered
NotRendered == [error |-> FALSE, text |-> <<>>, rendered |-> FALSE]

\* @render.text: the returned string is displayed; an exception the function
\* lets out is displayed as that output's error
Display(r) ==
    IF r.raised THEN [error |-> TRUE, exc |-> r.exc, rendered |-> TRUE]
    ELSE [error |-> FALSE, text |-> r.text, rendered |-> TRUE]

\* an output that does not read i.refresh()
InvalidatedButRaw == {"env_info", "credentials_result"}

\* the outputs that read i.refresh() and are invalidated by a click
Invalidated == {"env_info", "credentials_result", "raw_http_result"}

Init ==
    /\ environ \in Environs
    /\ headers \in HeaderSets
    /\ refresh = 0
    /\ pending = Outputs
    /\ shown = [o \in Outputs |-> NotRendered]
    /\ execs = [o \in Outputs |-> 0]
    /\ sdk = NoOutcome
    /\ http = NoOutcome
    /\ sdkCalls = <<>>
    /\ netCalls = <<>>

\* the bookkeeping of one execution of output o with result r
Executed(o, r) ==
    /\ o \in pending
    /\ pending' = pending \ {o}
    /\ shown' = [shown EXCEPT ![o] = Display(r)]
    /\ execs' = [execs EXCEPT ![o] = @ + 1]

RenderEnvInfo ==
    /\ Executed("env_info", [raised |-> FALSE, text |-> env_info(environ)])
    /\ UNCHANGED <<environ, headers, refresh, sdk, http, sdkCalls, netCalls>>

RenderCredentialsResult ==
    \E out \in SdkOutcomes :
        LET r == credentials_result(headers, out)
        IN  /\ Executed("credentials_result", r)
            /\ sdk' = out
            /\ sdkCalls' = r.calls
            /\ UNCHANGED <<environ, headers, refresh, http, netCalls>>

RenderRawHttpResult ==
    \E out \in HttpOutcomes :
        LET r == raw_http_result(environ, out)
        IN  /\ Executed("raw_http_result", r)
            /\ http' = IF r.calls = <<>> THEN NoOutcome ELSE out
            /\ netCalls' = r.calls
            /\ UNCHANGED <<environ, headers, refresh, sdk, sdkCalls>>

\* a click is handled once the previous flush is over
ClickRefresh ==
    /\ pending = {}
    /\ refresh < MaxClicks
    /\ refresh' = refresh + 1
    /\ pending' = Invalidated
    /\ UNCHANGED <<environ, headers, shown, execs, sdk, http, sdkCalls, netCalls>>

Next ==
    \/ RenderEnvInfo
    \/ RenderCredentialsResult
    \/ RenderRawHttpResult
    \/ ClickRefresh

Spec == Init /\ [][Next]_vars

-----------------------------------------------------------------------------
(* What the page shows and what the last executions did *)

Env == shown["env_info"]

Cred == shown["credentials_result"]

Raw == shown["raw_http_result"]

\* the session token of the request, None when the header is absent
SessionToken == HeadersGet(headers, TokenHeader)

\* the environment variables that connect_vars collects
Collected ==
    {k \in EnvNames : /\ environ[k].some
                      /\ StartsWith(k, CONNECT_PREFIX) \/ StartsWith(k, POSIT_PREFIX)}

\* the collected variables whose value is longer than 20 characters
LongCollected == {k \in Collected : Len(environ[k].val) > EnvTrunc}

\* the part of env_info's report that follows the heading of the mapping
RECURSIVE After(_, _)
After(text, tok) ==
    IF text = <<>> THEN <<>>
    ELSE IF Head(text) = tok THEN Tail(text)
    ELSE After(Tail(text), tok)

EnvMapping == After(Env.text, "All CONNECT_*/POSIT_* env vars:")

\* the last credentials_result got as far as the constructor, which raised
InitRaised == Cred.rendered /\ sdk.import.ok /\ ~sdk.client.ok

\* the last credentials_result got a client
ClientReady == Cred.rendered /\ sdk.import.ok /\ sdk.client.ok

\* the SDK operations called by the last credentials_result, in order
SdkOps == [j \in 1..Len(sdkCalls) |-> sdkCalls[j].op]

-----------------------------------------------------------------------------
(* C1 *)

\* C1 as stated: for every collected variable (CONNECT_SERVER and
\* POSIT_PRODUCT among them) whose value is longer than 20 characters,
\* env_info's report contains the first 20 characters followed by "..." and
\* nowhere contains the full value.
C1_FullValueNowhere ==
    Env.rendered =>
        \A k \in LongCollected :
            /\ Contains(Env.text, Take(environ[k].val, EnvTrunc) \o Ellipsis)
            /\ ~Contains(Env.text, environ[k].val)

\* C1 amended: for every collected variable whose value is longer than 20
\* characters, the JSON mapping of env_info's report has exactly one entry
\* for it, and the entry's value is the JSON encoding of the first 20
\* characters followed by "..."; the first two lines of the report print
\* CONNECT_SERVER and POSIT_PRODUCT in full, whatever their length.
C1_MappingRedacted ==
    Env.rendered =>
        /\ \A k \in LongCollected :
              /\ Contains(EnvMapping,
                          <<"\n">> \o JsonMember(k, JsonString(Take(environ[k].val, EnvTrunc)
                                                               \o Ellipsis)))
              /\ Count(EnvMapping, <<"\n", " ", " ">> \o JsonString(k) \o <<":">>) = 1
        /\ StartsWith(Env.text,
                      <<"CONNECT_SERVER = ">> \o EnvGet(environ, CONNECT_SERVER, <<"<not set>">>)
                      \o <<"\n", "POSIT_PRODUCT  = ">>
                      \o EnvGet(environ, POSIT_PRODUCT, <<"<not set>">>) \o <<"\n">>)

\* env_info ran with two long collected values, one of them CONNECT_SERVER
C1_Witness ==
    /\ Env.rendered
    /\ CONNECT_SERVER \in LongCollected
    /\ CONNECT_API_KEY \in LongCollected

-----------------------------------------------------------------------------
(* C2 *)

\* C2: no report of any producer contains more of the session token than
\* its first 20 characters.
C2_TokenPrefixOnly ==
    \A o \in Outputs :
        (shown[o].rendered /\ ~shown[o].error
         /\ SessionToken.some /\ Len(SessionToken.val) > TokenPrefix)
        => ~Contains(shown[o].text, Take(SessionToken.val, TokenPrefix + 1))

-----------------------------------------------------------------------------
(* C3 *)

\* C3: every producer returns a report string; none lets an exception out.
C3_NothingPropagates ==
    \A o \in Outputs : shown[o].rendered => ~shown[o].error

-----------------------------------------------------------------------------
(* C4 *)

\* C4: if the SDK client constructor raises, credentials_result calls
\* neither get_credentials nor get_content_credentials, and its report has
\* the constructor's error kind and message and neither a viewer-credential
\* nor a service-credential section.
C4_InitErrorEndsReport ==
    InitRaised =>
        /\ sdkCalls = <<ClientCall>>
        /\ ~Cred.error
        /\ Contains(Cred.text, <<"Client() init error: ">> \o ExcText(sdk.client))
        /\ ~Contains(Cred.text, <<"get_credentials">>)
        /\ ~Contains(Cred.text, <<"get_content_credentials">>)

\* the constructor raised in the last credentials_result
C4_Witness == InitRaised /\ Cred.text # <<>>

-----------------------------------------------------------------------------
(* C5 *)

\* the lines the report gives operation op: its response and error labels
Responses(op) == Count(Cred.text, <<op, "() response:">>)

Errors(op) == Count(Cred.text, <<op, "() error: ">>)

\* C5: whenever the client initializes, both exchanges are attempted,
\* viewer first, and the report has exactly one viewer outcome section
\* followed by exactly one service-account outcome section, each under its
\* own label and each a response or an error as its own call went.
C5_OneSectionEach ==
    ClientReady =>
        /\ SdkOps = <<"Client", "get_credentials", "get_content_credentials">>
        /\ Responses("get_credentials") + Errors("get_credentials") = 1
        /\ Responses("get_content_credentials") + Errors("get_content_credentials") = 1
        /\ Contains(After(Cred.text, "get_credentials"), <<"get_content_credentials">>)
        /\ ~Contains(After(Cred.text, "get_content_credentials"), <<"get_credentials">>)
        /\ (Responses("get_credentials") = 1) = sdk.viewer.ok
        /\ (Responses("get_content_credentials") = 1) = sdk.content.ok

-----------------------------------------------------------------------------
(* C6 *)

\* C6 as stated: with CONNECT_SERVER unset the report is exactly the
\* literal CONNECT_SERVER not set, and no outbound call is made; a call is
\* made only when CONNECT_SERVER is set.
C6_SkipLiteral ==
    Raw.rendered =>
        /\ ~environ[CONNECT_SERVER].some =>
              /\ ~Raw.error
              /\ Raw.text = <<"CONNECT_SERVER not set">>
              /\ netCalls = <<>>
        /\ netCalls # <<>> => environ[CONNECT_SERVER].some

\* C6 amended: with CONNECT_SERVER unset the report is exactly the line
\* CONNECT_SERVER not set - cannot make raw HTTP request, and no outbound
\* call is made; a call is made only when CONNECT_SERVER is set, and then
\* it is one POST to the value followed by the credentials path.
C6_SkipMessage ==
    Raw.rendered =>
        /\ ~environ[CONNECT_SERVER].some =>
              /\ ~Raw.error
              /\ Raw.text = <<"CONNECT_SERVER not set - cannot make raw HTTP request">>
              /\ netCalls = <<>>
        /\ netCalls # <<>> =>
              /\ environ[CONNECT_SERVER].some
              /\ netCalls = <<Request(environ[CONNECT_SERVER].val \o CredentialsPath)>>

\* raw_http_result ran with CONNECT_SERVER unset
C6_Witness == Raw.rendered /\ ~environ[CONNECT_SERVER].some /\ netCalls = <<>>

-----------------------------------------------------------------------------
(* C7 *)

-----------------------------------------------------------------------------
(* C8 *)

-----------------------------------------------------------------------------
(* C9 *)

\* C9: on a non-2xx response raw_http_result does not raise, and its report
\* has the status code and the exact body text, or <no body> when there is
\* no body stream.
C9_HttpErrorReported ==
    (Raw.rendered /\ http.kind = "HTTPError") =>
        /\ ~Raw.error
        /\ Contains(Raw.text, <<"\n", "HTTP Error: ">> \o IntStr(http.code) \o <<"\n">>)
        /\ Contains(Raw.text,
                    <<"\n", "Body: ">>
                    \o (IF http.fp THEN http.body.text ELSE <<"<no body>">>))

-----------------------------------------------------------------------------
(* C10 *)

====
